---- MODULE Spec2Model ----
(***************************************************************************)
(* Batched LM inference with response caching (fms_sdg.generators).        *)
(*                                                                         *)
(* llm.py  : LMGenerator, hash_args, CacheHook, CachingLM                  *)
(* vllm.py : vLLMGenerator (generate_batch, _loglikelihood_tokens)         *)
(*                                                                         *)
(* Strings held in request args and produced by the engine are sequences   *)
(* of one-character strings; kwargs keys and the enumerated kwargs values  *)
(* are whole TLA+ strings.  A kwargs mapping is the sequence of its        *)
(* <<key, value>> items in insertion order (a Python dict keeps it).       *)
(*                                                                         *)
(* Spec      : dispatch calls of CachingLM on a shared store               *)
(* SpecHash  : hash_args on two (operation, request) pairs                 *)
(* SpecTrunc : update_instance_with_result on one text and stop list       *)
(* SpecScore : one request of _loglikelihood_tokens                        *)
(* SpecDp    : _model_generate over data-parallel replicas                 *)
(* SpecColl  : _loglikelihood_tokens on a list of encoded requests         *)
(* SpecKw    : the sampling parameters generate_batch builds for a chunk   *)
(* SpecPrompt: the prompt generate_batch cuts from an encoded context     *)
(* SpecRepeat: dispatch calls, then one call repeated on equal requests    *)
(***************************************************************************)
EXTENDS Integers, Sequences, FiniteSets, TLC

VARIABLES
    \* ---- CachingLM / LMGenerator state
    dbdict,          \* CachingLM.dbdict: key -> stored value
    cache_hook,      \* LMGenerator.cache_hook.dbdict: "None" or "dbdict"
    batch_size,      \* vLLMGenerator.batch_size: "auto" or an integer as text
    \* ---- one dispatch call, CachingLM.__getattr__.fn
    pc,              \* "idle" | "running" | "returned" | "raised"
    attr,            \* the operation name of the call
    requests,        \* the Instance objects of the call (args, kwargs, result)
    res,             \* fn's local list res
    remaining_reqs,  \* fn's local list remaining_reqs, as positions in requests
    warnings,        \* warnings logged by the call
    lm_calls,        \* the argument of each invocation of getattr(self.lm, attr)
    engine_calls,    \* the positions submitted by each _model_generate call
    pos,             \* number of chunks the generator has finished
    ll_res,          \* _loglikelihood_tokens' local list res
    lm_return,       \* what the generator operation returned
    commits,         \* explicit dbdict.commit() calls of the call
    store_log,       \* the store operations of the call, in program order
    engine_outs,     \* the raw texts each generate call of the engine returned
    error,           \* "none" | "AssertionError" | "EngineError"
    \* ---- history of the call, for the properties
    before,          \* dbdict when the call started
    scan,            \* res as the scan loop left it
    produced,        \* req.result of every request when the generator returned
    used,            \* requests passed to dispatch calls so far
    \* ---- hash_args applied to two (operation, request) pairs
    hop1, hreq1, hop2, hreq2, hkey1, hkey2, hpc,
    \* ---- single operations applied to drawn inputs, one record each
    trunc,           \* update_instance_with_result: text, until, result
    score,           \* one request of _loglikelihood_tokens
    dp,              \* _model_generate over data-parallel replicas
    coll,            \* _loglikelihood_tokens over a list of encoded requests
    kwp,             \* the sampling parameters generate_batch builds
    prompt,          \* the prompt generate_batch cuts from one context
    \* ---- a dispatch call repeated on equal requests
    prev             \* the results and the store the first call left

vars == <<dbdict, cache_hook, batch_size, pc, attr, requests, res,
          remaining_reqs, warnings, lm_calls, engine_calls, pos, ll_res,
          lm_return, commits, store_log, engine_outs, error, before, scan,
          produced, used,
          hop1, hreq1, hop2, hreq2, hkey1, hkey2, hpc,
          trunc, score, dp, coll, kwp, prompt,
          prev>>

dispatch_vars == <<dbdict, cache_hook, batch_size, pc, attr, requests, res,
                   remaining_reqs, warnings, lm_calls, engine_calls, pos,
                   ll_res, lm_return, commits, store_log, engine_outs, error,
                   before, scan, produced, used>>

hash_vars == <<hop1, hreq1, hop2, hreq2, hkey1, hkey2, hpc>>

fn_vars == <<trunc, score, dp, coll, kwp, prompt>>

\* the dispatch variables other than the store
call_vars == <<cache_hook, batch_size, pc, attr, requests, res,
               remaining_reqs, warnings, lm_calls, engine_calls, pos,
               ll_res, lm_return, commits, store_log, engine_outs, error,
               before, scan, produced, used>>

(***************************************************************************)
(* Bounds of the model.                                                    *)
(***************************************************************************)
MaxReqs == 2        \* longest request list of one dispatch call
MaxTotal == 3       \* requests dispatched in one behaviour, over all calls
MaxText == 3        \* characters of a raw output text
MaxTerm == 2        \* characters of a stop sequence
MaxStops == 2       \* stop sequences of an until list
MaxCtx == 3         \* tokens of an encoded context
MaxCont == 4        \* tokens of an encoded continuation
MaxWindow == 3      \* self.max_length of the scoring generator
MaxReplicas == 3    \* self.data_parallel_size
MaxPrompts == 4     \* prompts of one _model_generate call
MaxScored == 3      \* requests of one _loglikelihood_tokens call
MaxKw == 2          \* items of the kwargs of one request
MaxGen == 4         \* kwargs["max_tokens"] of a chunk

(***************************************************************************)
(* Values.  A result slot or a slot of res holds None or a value.          *)
(***************************************************************************)
None == [none |-> TRUE, val |-> <<>>]
Some(v) == [none |-> FALSE, val |-> v]

Range(s) == {s[i] : i \in 1..Len(s)}

RECURSIVE Flatten(_)
Flatten(ss) == IF ss = <<>> THEN <<>> ELSE Head(ss) \o Flatten(Tail(ss))

(***************************************************************************)
(* kwargs mappings: dict.get, "in", and dict equality (order-insensitive). *)
(***************************************************************************)
HasKey(kw, k) == \E i \in 1..Len(kw) : kw[i][1] = k
KwVal(kw, k) == kw[CHOOSE i \in 1..Len(kw) : kw[i][1] = k][2]
SameMapping(kw1, kw2) == Range(kw1) = Range(kw2)

KW_EMPTY == <<>>
KW_SAMPLE == << <<"decoding_method", "sample">> >>
KW_GREEDY == << <<"decoding_method", "greedy">> >>
KW_GREEDY_MAX == << <<"decoding_method", "greedy">>, <<"max_new_tokens", 2>> >>
KW_MAX_GREEDY == << <<"max_new_tokens", 2>>, <<"decoding_method", "greedy">> >>

IntKeys == {"max_new_tokens", "min_new_tokens"}

(***************************************************************************)
(* json.dumps([attr] + [request.args, request.kwargs]) as the sequence of  *)
(* the characters and atoms it writes.  A dict is written in insertion     *)
(* order: dumps is called without sort_keys.                               *)
(***************************************************************************)
json_str(s) == <<"\"">> \o s \o <<"\"">>
json_atom(a) == <<"\"", a, "\"">>

RECURSIVE json_join(_)
json_join(parts) ==
    IF parts = <<>> THEN <<>>
    ELSE IF Len(parts) = 1 THEN parts[1]
    ELSE parts[1] \o <<",", " ">> \o json_join(Tail(parts))

json_args(args) ==
    <<"[">> \o json_join([i \in 1..Len(args) |-> json_str(args[i])]) \o <<"]">>

json_value(k, v) == IF k \in IntKeys THEN <<ToString(v)>> ELSE json_atom(v)

json_item(it) == json_atom(it[1]) \o <<":", " ">> \o json_value(it[1], it[2])

json_kwargs(kw) ==
    <<"{">> \o json_join([i \in 1..Len(kw) |-> json_item(kw[i])]) \o <<"}">>

json_dumps(a, args, kw) ==
    <<"[">> \o json_join(<<json_atom(a), json_args(args), json_kwargs(kw)>>)
            \o <<"]">>

\* hashlib.sha256(...).hexdigest(): the digest is taken to be injective
sha256(dat) == <<"sha256">> \o dat

\* a key derivation that forgets the operation name
hash_args_no_attr(a, request) ==
    sha256(json_dumps("", request.args, request.kwargs))

\* llm.py hash_args
hash_args(a, request) ==
    sha256(json_dumps(a, request.args, request.kwargs))

(***************************************************************************)
(* The requests a caller may pass.                                         *)
(***************************************************************************)
Instance(args, kw) == [args |-> args, kwargs |-> kw, result |-> None]

GenContexts == {<<"a">>, <<"b">>}
GenKwargs == {KW_EMPTY, KW_SAMPLE, KW_GREEDY}
GenRequests == {Instance(<<c>>, kw) : c \in GenContexts, kw \in GenKwargs}

LLContexts == {<<>>, <<"a">>}
LLContinuations == {<<"b">>}
LLRequests == {Instance(<<c, d>>, KW_EMPTY) : c \in LLContexts, d \in LLContinuations}

Operations == {"generate_batch", "loglikelihood"}
RequestsOf(a) == IF a = "generate_batch" THEN GenRequests ELSE LLRequests

SeqsUpTo(S, n) == UNION {[1..k -> S] : k \in 0..n}

(***************************************************************************)
(* CachingLM.__getattr__.fn, the scan loop (llm.py 194-215).               *)
(***************************************************************************)
\* llm.py 196-199
IsExempt(a, req) ==
    /\ a = "generate_batch"
    /\ HasKey(req.kwargs, "decoding_method")
    /\ KwVal(req.kwargs, "decoding_method") = "sample"

\* a lookup that never finds a key
BranchAlwaysMiss(a, req, db) ==
    IF IsExempt(a, req) THEN "exempt" ELSE "miss"

\* a lookup that consults the store before the exemption
BranchStoreFirst(a, req, db) ==
    IF hash_args(a, req) \in DOMAIN db THEN "hit"
    ELSE IF IsExempt(a, req) THEN "exempt" ELSE "miss"

\* llm.py 196, 209, 213: which branch of the scan loop a request takes
Branch(a, req, db) ==
    IF IsExempt(a, req) THEN "exempt"
    ELSE IF hash_args(a, req) \in DOMAIN db THEN "hit"
    ELSE "miss"

\* a warning at every exempt request, whatever the flag says
warn_each(warned) == 1

\* llm.py 202-206: the warnings an exempt request adds, given the flag
warn_once(warned) == IF warned THEN 0 ELSE 1

\* llm.py 187-215: the locals after the first i requests were scanned;
\* failed is the "assert ob is not None" of line 211
RECURSIVE Scan(_, _, _, _)
Scan(a, reqs, db, i) ==
    IF i = 0
    THEN [res |-> <<>>, remaining_reqs |-> <<>>, warned |-> FALSE,
          warnings |-> 0, failed |-> FALSE]
    ELSE LET p == Scan(a, reqs, db, i - 1)
             req == reqs[i]
             hsh == hash_args(a, req)
             b == Branch(a, req, db)
         IN  IF p.failed THEN p
             ELSE IF b = "exempt"
             THEN [p EXCEPT !.res = Append(@, None),
                            !.remaining_reqs = Append(@, i),
                            !.warnings = @ + warn_once(p.warned),
                            !.warned = TRUE]
             ELSE IF b = "hit"
             THEN IF db[hsh] = None
                  THEN [p EXCEPT !.failed = TRUE]
                  ELSE [p EXCEPT !.res = Append(@, db[hsh])]
             ELSE [p EXCEPT !.res = Append(@, None),
                            !.remaining_reqs = Append(@, i)]

(***************************************************************************)
(* CacheHook.add_partial and the store write dbdict[hsh] = value.          *)
(***************************************************************************)
\* a write that leaves only the written key in the store
SetItemEvict(db, k, v) == [x \in {k} |-> v]

SetItem(db, k, v) == [x \in DOMAIN db \cup {k} |-> IF x = k THEN v ELSE db[x]]

\* a hook that files the result under the operation name "generate_until"
add_partial_other_name(db, hook, a, req, r) ==
    IF hook = "None" THEN db ELSE SetItem(db, hash_args("generate_until", req), r)

\* llm.py 154-158
add_partial(db, hook, a, req, r) ==
    IF hook = "None" THEN db ELSE SetItem(db, hash_args(a, req), r)

(***************************************************************************)
(* CachingLM.__getattr__.fn, the merge loop (llm.py 225-234).              *)
(***************************************************************************)
\* a pointer that is never advanced past the filled slots
AdvancePtrNoSkip(r, resptr) == resptr

\* llm.py 227-228, with positions counted from 1
RECURSIVE AdvancePtr(_, _)
AdvancePtr(r, resptr) ==
    IF resptr <= Len(r) /\ r[resptr] # None
    THEN AdvancePtr(r, resptr + 1)
    ELSE resptr

\* llm.py 225-234: res, resptr and the store after the first j queued
\* requests were merged; failed is an index past the end of res
RECURSIVE Merge(_, _, _, _, _)
Merge(a, reqs, remaining, r0, db0) ==
    IF remaining = <<>>
    THEN [res |-> r0, db |-> db0, resptr |-> 1, failed |-> FALSE]
    ELSE LET n == Len(remaining)
             p == Merge(a, reqs, SubSeq(remaining, 1, n - 1), r0, db0)
             req == reqs[remaining[n]]
             ptr == AdvancePtr(p.res, p.resptr)
         IN  IF p.failed \/ ptr > Len(p.res)
             THEN [p EXCEPT !.failed = TRUE]
             ELSE [res |-> [p.res EXCEPT ![ptr] = req.result],
                   db |-> SetItem(p.db, hash_args(a, req), req.result),
                   resptr |-> ptr,
                   failed |-> FALSE]

\* a commit after every write of the loop
merge_events_commit_each(n) ==
    Flatten([j \in 1..n |-> <<"setitem", "commit">>]) \o <<"commit">>

\* llm.py 226-235: the store operations of the merge loop over n queued
\* requests, then the commit
merge_events(n) == [j \in 1..n |-> "setitem"] \o <<"commit">>

\* llm.py 128, 154-158: the store operations of the cache hook for the n
\* results of a chunk
hook_events(hook, n) ==
    IF hook = "None" THEN <<>> ELSE [j \in 1..n |-> "add_partial"]

(***************************************************************************)
(* LMGenerator.update_instance_with_result (llm.py 120-128).               *)
(***************************************************************************)
OccursAt(text, term, i) ==
    /\ i + Len(term) - 1 <= Len(text)
    /\ SubSeq(text, i, i + Len(term) - 1) = term

\* text.split(term)[0] for a non-empty term
split_first(text, term) ==
    IF \E i \in 1..Len(text) : OccursAt(text, term, i)
    THEN LET i == CHOOSE i \in 1..Len(text) :
                    /\ OccursAt(text, term, i)
                    /\ \A j \in 1..(i - 1) : ~OccursAt(text, term, j)
         IN  SubSeq(text, 1, i - 1)
    ELSE text

\* llm.py 123-126: until is a sequence of terms
RECURSIVE truncate(_, _)
truncate(text, until) ==
    IF until = <<>> THEN text
    ELSE truncate(IF Len(Head(until)) > 0 THEN split_first(text, Head(until))
                  ELSE text,
                  Tail(until))

(***************************************************************************)
(* vLLMGenerator.generate_batch (vllm.py 255-334).                         *)
(***************************************************************************)
\* llm.py 48-54 with no generation parameter in the config
base_kwargs == KW_SAMPLE

\* the keys of base keep their values
merge_kwargs_base_wins(base, kw) ==
    base \o SelectSeq(kw, LAMBDA it : ~HasKey(base, it[1]))

\* {**base, **kw}: the keys of base keep their place, new keys follow
merge_kwargs(base, kw) ==
    [i \in 1..Len(base) |->
        IF HasKey(kw, base[i][1]) THEN <<base[i][1], KwVal(kw, base[i][1])>>
        ELSE base[i]]
    \o SelectSeq(kw, LAMBDA it : ~HasKey(base, it[1]))

\* self.tokenizer.decode(self.eot_token_id)
eos == <<"$">>

\* llm.py 48-54: _base_kwargs of a generator whose config holds the
\* generation parameters cfg_kwargs
base_kwargs_of(cfg_kwargs) == merge_kwargs(KW_SAMPLE, cfg_kwargs)

\* kwargs.pop(key) and kwargs[key] = v on a mapping
kw_pop(kw, key) == SelectSeq(kw, LAMBDA it : it[1] # key)
kw_set(kw, key, v) ==
    IF HasKey(kw, key)
    THEN [i \in 1..Len(kw) |-> IF kw[i][1] = key THEN <<key, v>> ELSE kw[i]]
    ELSE Append(kw, <<key, v>>)

\* a value of the key stop_sequences: a str, a list of str, or another type
StopStr(string) == [kind |-> "str", str |-> string]
StopList(terms) == [kind |-> "list", list |-> terms]
StopOther == [kind |-> "other"]

\* vllm.py 79: self.max_gen_toks, the config default
max_gen_toks == 256

\* vllm.py 285-314: the sampling kwargs and the stop list of a chunk;
\* failed is the ValueError of line 294
chunk_params(base, gen_kwargs, gen_toks) ==
    LET k0 == merge_kwargs(base, gen_kwargs)
        has_stop == HasKey(k0, "stop_sequences")
        stop == KwVal(k0, "stop_sequences")
        until == IF ~has_stop THEN <<>>
                 ELSE IF stop.kind = "str" THEN <<stop.str>>
                 ELSE IF stop.kind = "list" THEN stop.list
                 ELSE <<>>
        k1 == kw_set(kw_pop(k0, "stop_sequences"), "max_tokens", gen_toks)
        k2 == IF HasKey(k1, "max_new_tokens")
              THEN kw_set(kw_pop(k1, "max_new_tokens"), "max_tokens",
                          KwVal(k1, "max_new_tokens"))
              ELSE k1
        k3 == IF HasKey(k2, "min_new_tokens")
              THEN kw_set(kw_pop(k2, "min_new_tokens"), "min_tokens",
                          KwVal(k2, "min_new_tokens"))
              ELSE k2
        k4 == IF HasKey(k3, "decoding_method")
              THEN kw_set(kw_pop(k3, "decoding_method"), "do_sample",
                          KwVal(k3, "decoding_method") = "sample")
              ELSE k3
    IN  [failed |-> has_stop /\ stop.kind \notin {"str", "list"},
         kwargs |-> k4,
         until |-> until \o <<eos>>]

\* vllm.py 455-464; temperatures are counted in tenths
modify_gen_kwargs(kwargs) ==
    LET not_sample == HasKey(kwargs, "do_sample")
                         /\ KwVal(kwargs, "do_sample") = FALSE
        k1 == kw_pop(kwargs, "do_sample")
        k2 == IF not_sample \/ ~HasKey(k1, "temperature")
              THEN kw_set(k1, "temperature", 0)
              ELSE k1
        k3 == kw_set(k2, "skip_special_tokens",
                     IF HasKey(k2, "skip_special_tokens")
                     THEN KwVal(k2, "skip_special_tokens") ELSE FALSE)
    IN  kw_set(k3, "spaces_between_special_tokens",
               IF HasKey(k3, "spaces_between_special_tokens")
               THEN KwVal(k3, "spaces_between_special_tokens") ELSE FALSE)

\* vllm.py 286-297, 309-314: the stop list of a chunk
until_of(gen_kwargs) == chunk_params(base_kwargs, gen_kwargs, max_gen_toks).until

\* one grouping key for every kwargs
py_str_constant(kw) == <<"{", "}">>

\* str(kwargs), the grouping key of vllm.py 265
py_str(kw) ==
    <<"{">> \o json_join([i \in 1..Len(kw) |->
                <<"'", kw[i][1], "'", ":", " ">> \o
                (IF kw[i][1] \in IntKeys THEN <<ToString(kw[i][2])>>
                 ELSE <<"'", kw[i][2], "'">>)])
            \o <<"}">>

\* int(self.batch_size) if self.batch_size != "auto" else 0
BatchSizes == {"auto", "1"}
\* no bound on the chunk, whatever the batch size
chunk_n_unbounded(bs) == 0

chunk_n(bs) == IF bs = "auto" THEN 0 ELSE CHOOSE n \in 1..9 : ToString(n) = bs

\* Grouper.get_grouped: the groups in order of first occurrence, each in
\* the order of the input; keys[j] is the key of idxs[j]
RECURSIVE group_keys(_)
group_keys(keys) ==
    IF keys = <<>> THEN <<>>
    ELSE LET k == Head(keys)
         IN  <<k>> \o SelectSeq(group_keys(Tail(keys)), LAMBDA x : x # k)

get_grouped(reqs, idxs) ==
    LET keys == [j \in 1..Len(idxs) |-> py_str(reqs[idxs[j]].kwargs)]
        ks == group_keys(keys)
        at(g) == {j \in 1..Len(idxs) : keys[j] = ks[g]}
        RECURSIVE pick(_, _)
        pick(g, j) == IF j > Len(idxs) THEN <<>>
                      ELSE (IF j \in at(g) THEN <<idxs[j]>> ELSE <<>>)
                           \o pick(g, j + 1)
    IN  [g \in 1..Len(ks) |-> pick(g, 1)]

\* generator_utils.chunks: pieces of n items, one piece when n <= 0
RECURSIVE chunks(_, _)
chunks(xs, n) ==
    IF xs = <<>> THEN <<>>
    ELSE IF n <= 0 \/ Len(xs) <= n THEN <<xs>>
    ELSE <<SubSeq(xs, 1, n)>> \o chunks(SubSeq(xs, n + 1, Len(xs)), n)

\* vllm.py 272-279: the chunks generate_batch submits, in order
generate_chunks(reqs, idxs, bs) ==
    LET groups == get_grouped(reqs, idxs)
    IN  Flatten([g \in 1..Len(groups) |-> chunks(groups[g], chunk_n(bs))])

\* what the engine may produce for one prompt
RawTexts == {<<"x">>, <<"$", "y">>}

\* every request of the chunk receives the chunk's first output
RECURSIVE write_back_first(_, _, _, _, _, _)
write_back_first(reqs, db, hook, chunk, outs, until) ==
    IF chunk = <<>> THEN [requests |-> reqs, db |-> db]
    ELSE LET i == Head(chunk)
             text == truncate(Head(outs), until)
             inst == [reqs[i] EXCEPT !.result = Some(text)]
         IN  write_back_first([reqs EXCEPT ![i] = inst],
                              add_partial(db, hook, "generate_batch", inst,
                                          Some(text)),
                              hook, Tail(chunk), outs, until)

\* vllm.py 329-331 with llm.py 127-128 for the k-th item of a chunk on:
\* the requests and the store after the chunk's outputs were written back
RECURSIVE write_back(_, _, _, _, _, _)
write_back(reqs, db, hook, chunk, outs, until) ==
    IF chunk = <<>> THEN [requests |-> reqs, db |-> db]
    ELSE LET i == Head(chunk)
             text == truncate(Head(outs), until)
             inst == [reqs[i] EXCEPT !.result = Some(text)]
         IN  write_back([reqs EXCEPT ![i] = inst],
                        add_partial(db, hook, "generate_batch", inst, Some(text)),
                        hook, Tail(chunk), Tail(outs), until)

(***************************************************************************)
(* LMGenerator.loglikelihood and vLLMGenerator._loglikelihood_tokens.      *)
(***************************************************************************)
Max(x, y) == IF x >= y THEN x ELSE y
Min(x, y) == IF x <= y THEN x ELSE y

\* s[c:] of Python, c of either sign
py_slice_from(s, c) ==
    LET start == IF c < 0 THEN Max(0, Len(s) + c) ELSE Min(c, Len(s))
    IN  SubSeq(s, start + 1, Len(s))

\* vllm.py 318-319: the prompt cut from one encoded context
truncate_context(x, max_len, max_tokens) ==
    LET max_ctx_len == max_len - max_tokens
    IN  py_slice_from(x, 0 - max_ctx_len)

\* the tokenizer: one token per character
tok_id(c) == CASE c = "a" -> 3 [] c = "b" -> 4 [] c = " " -> 5 [] OTHER -> 6
tok_encode(string) == [i \in 1..Len(string) |-> tok_id(string[i])]

eot_token_id == 2
prefix_token_id == eot_token_id
max_length == 3

\* len(context) - len(context.rstrip())
RECURSIVE n_trailing_spaces(_)
n_trailing_spaces(string) ==
    IF string # <<>> /\ string[Len(string)] = " "
    THEN 1 + n_trailing_spaces(SubSeq(string, 1, Len(string) - 1))
    ELSE 0

\* llm.py 100-118, the decoder-only branch
encode_pair(context, continuation) ==
    LET n_spaces == n_trailing_spaces(context)
        cont == SubSeq(context, Len(context) - n_spaces + 1, Len(context))
                    \o continuation
        ctx == SubSeq(context, 1, Len(context) - n_spaces)
        whole_enc == tok_encode(ctx \o cont)
        context_enc == tok_encode(ctx)
    IN  <<context_enc, py_slice_from(whole_enc, Len(context_enc))>>

\* llm.py 85-96: (context_enc, continuation_enc) of one request
new_req(req) ==
    LET context == req.args[1]
        continuation == req.args[2]
    IN  IF context = <<>>
        THEN <<<<prefix_token_id>>, tok_encode(continuation)>>
        ELSE encode_pair(context, continuation)

\* tuple comparison of Python on token sequences
RECURSIVE lex_less(_, _)
lex_less(s, t) ==
    IF t = <<>> THEN FALSE
    ELSE IF s = <<>> THEN TRUE
    ELSE IF Head(s) # Head(t) THEN Head(s) < Head(t)
    ELSE lex_less(Tail(s), Tail(t))

\* the shortest token sequences first
collate_less_ascending(x, y) ==
    LET tx == x[1] \o x[2]
        ty == y[1] \o y[2]
    IN  \/ Len(tx) < Len(ty)
        \/ Len(tx) = Len(ty) /\ lex_less(tx, ty)

\* vllm.py 343-345: _collate(x) < _collate(y)
collate_less(x, y) ==
    LET tx == x[1] \o x[2]
        ty == y[1] \o y[2]
    IN  \/ Len(tx) > Len(ty)
        \/ Len(tx) = Len(ty) /\ lex_less(tx, ty)

\* Collator: the positions of reqs in stably sorted order
RECURSIVE sorted_order(_, _)
sorted_order(reqs, n) ==
    IF n = 0 THEN <<>>
    ELSE LET p == sorted_order(reqs, n - 1)
             k == Cardinality({j \in 1..Len(p) : ~collate_less(reqs[n], reqs[p[j]])})
         IN  SubSeq(p, 1, k) \o <<n>> \o SubSeq(p, k + 1, Len(p))

\* vllm.py 348-351: the chunks of queue positions, in sorted order
loglikelihood_chunks(reqs, idxs, bs) ==
    LET enc == [j \in 1..Len(idxs) |-> new_req(reqs[idxs[j]])]
    IN  chunks(sorted_order(enc, Len(enc)), chunk_n(bs))

\* vllm.py 362-365 for a generator whose self.max_length is L
ll_input_at(enc, L) == py_slice_from(enc[1] \o enc[2], 0 - L)
ll_ctxlen_at(enc, L) ==
    Len(enc[1]) - Max(0, Len(enc[1]) + Len(enc[2]) - L)

\* vllm.py 362-365
ll_input(enc) == ll_input_at(enc, max_length)
ll_ctxlen(enc) == ll_ctxlen_at(enc, max_length)

\* the engine's prompt_logprobs: no entry for the first token, then the
\* log-probability of each prompt token
logprob_of(tok) == 0 - tok

RECURSIVE sum_seq(_)
sum_seq(xs) == IF xs = <<>> THEN 0 ELSE Head(xs) + sum_seq(Tail(xs))

\* vllm.py 430-437: fails when the slice reaches the first entry (None)
parse_logprobs(tokens, ctxlen) ==
    LET kept == py_slice_from(tokens, ctxlen)
    IN  [failed |-> Len(kept) = Len(tokens) /\ Len(tokens) > 0,
         value |-> sum_seq([i \in 1..Len(kept) |-> logprob_of(kept[i])])]

\* Collator.get_original: the results back in the order of the input
get_original(order, results) ==
    [j \in 1..Len(order) |-> results[CHOOSE k \in 1..Len(order) : order[k] = j]]

(***************************************************************************)
(* vLLMGenerator._model_generate over data-parallel replicas               *)
(* (vllm.py 222-253).                                                      *)
(***************************************************************************)
\* n consecutive blocks instead of an interleaving
distribute_blocks(n, items) ==
    LET size == (Len(items) + n - 1) \div n
    IN  [w \in 1..n |->
            SubSeq(items, Min((w - 1) * size, Len(items)) + 1,
                   Min(w * size, Len(items)))]

\* more_itertools.distribute(n, iterable) as called at vllm.py 239: child w
\* receives the items at positions w, w + n, w + 2n, ...
distribute(n, items) ==
    [w \in 1..n |->
        [r \in 1..((Len(items) - w) \div n + 1) |-> items[w + (r - 1) * n]]]

\* generator_utils.undistribute: the lists read round by round, one item
\* of each list that still has one
RECURSIVE undistribute_from(_, _)
undistribute_from(lists, r) ==
    IF \A w \in 1..Len(lists) : Len(lists[w]) < r THEN <<>>
    ELSE Flatten([w \in 1..Len(lists) |->
                    IF r <= Len(lists[w]) THEN <<lists[w][r]>> ELSE <<>>])
         \o undistribute_from(lists, r + 1)

undistribute(lists) == undistribute_from(lists, 1)

\* LLM.generate: one output per prompt, in the order of the prompts
llm_generate(prompts) ==
    [i \in 1..Len(prompts) |-> [prompt_token_ids |-> prompts[i]]]

\* vllm.py 222-253
model_generate(data_parallel_size, prompts) ==
    IF data_parallel_size > 1
    THEN LET parts == distribute(data_parallel_size, prompts)
             results == [w \in 1..Len(parts) |-> llm_generate(parts[w])]
         IN  undistribute(results)
    ELSE llm_generate(prompts)

(***************************************************************************)
(* The state after CachingLM(lm, cache_db) was constructed on a new store. *)
(***************************************************************************)
HashIdle ==
    /\ hop1 = "generate_batch" /\ hop2 = "generate_batch"
    /\ hreq1 = Instance(<<<<"a">>>>, KW_EMPTY)
    /\ hreq2 = Instance(<<<<"a">>>>, KW_EMPTY)
    /\ hkey1 = <<>> /\ hkey2 = <<>>
    /\ hpc = "off"

DispatchInit ==
    /\ dbdict = <<>>
    /\ cache_hook = "dbdict"
    /\ batch_size \in BatchSizes
    /\ pc = "idle"
    /\ attr = "generate_batch"
    /\ requests = <<>>
    /\ res = <<>>
    /\ remaining_reqs = <<>>
    /\ warnings = 0
    /\ lm_calls = <<>>
    /\ engine_calls = <<>>
    /\ pos = 0
    /\ ll_res = <<>>
    /\ lm_return = <<>>
    /\ commits = 0
    /\ store_log = <<>>
    /\ engine_outs = <<>>
    /\ error = "none"
    /\ before = <<>>
    /\ scan = <<>>
    /\ produced = <<>>
    /\ used = 0

\* no single operation is being applied
Off == [pc |-> "off"]
TruncIdle == trunc = Off
ScoreIdle == score = Off
DpIdle == dp = Off
CollIdle == coll = Off
KwIdle == kwp = Off
PromptIdle == prompt = Off
PrevIdle == prev = Off

Init ==
    /\ DispatchInit /\ HashIdle
    /\ TruncIdle /\ ScoreIdle /\ DpIdle /\ CollIdle /\ KwIdle
    /\ PromptIdle /\ PrevIdle

\* the chunks the generator operation of the running call works through
call_chunks ==
    IF attr = "generate_batch"
    THEN generate_chunks(requests, remaining_reqs, batch_size)
    ELSE loglikelihood_chunks(requests, remaining_reqs, batch_size)

(***************************************************************************)
(* fn(requests), llm.py 186-222: the scan loop, then the generator         *)
(* operation is invoked on remaining_reqs.                                 *)
(***************************************************************************)
DispatchBody(a, reqs) ==
    /\ LET s == Scan(a, reqs, dbdict, Len(reqs))
       IN  /\ res' = s.res
           /\ scan' = s.res
           /\ remaining_reqs' = s.remaining_reqs
           /\ warnings' = s.warnings
           /\ IF s.failed
              THEN /\ pc' = "raised"
                   /\ error' = "AssertionError"
                   /\ lm_calls' = <<>>
              ELSE /\ pc' = "running"
                   /\ error' = "none"
                   /\ lm_calls' = <<s.remaining_reqs>>
    /\ attr' = a
    /\ requests' = reqs
    /\ engine_calls' = <<>>
    /\ pos' = 0
    /\ ll_res' = <<>>
    /\ lm_return' = <<>>
    /\ commits' = 0
    /\ store_log' = <<>>
    /\ engine_outs' = <<>>
    /\ before' = dbdict
    /\ produced' = <<>>
    /\ used' = used + Len(reqs)
    /\ UNCHANGED <<dbdict, cache_hook, batch_size>>
    /\ UNCHANGED <<hash_vars, fn_vars>>

DispatchCall(a, reqs) == DispatchBody(a, reqs) /\ UNCHANGED prev

(***************************************************************************)
(* One chunk of generate_batch, vllm.py 279-332: the engine returns one    *)
(* text per prompt, each is truncated, written to its request and handed   *)
(* to the cache hook.                                                      *)
(***************************************************************************)
GenerateChunkWith(chunk, outs) ==
    /\ LET gen_kwargs == requests[chunk[1]].kwargs
           w == write_back(requests, dbdict, cache_hook, chunk, outs,
                           until_of(gen_kwargs))
       IN  /\ requests' = w.requests
           /\ dbdict' = w.db
           /\ engine_calls' = Append(engine_calls, chunk)
           /\ engine_outs' = Append(engine_outs, outs)
           /\ store_log' = store_log \o hook_events(cache_hook, Len(chunk))
    /\ pos' = pos + 1
    /\ UNCHANGED <<cache_hook, batch_size, pc, attr, res, remaining_reqs,
                   warnings, lm_calls, ll_res, lm_return, commits, error,
                   before, scan, produced, used>>
    /\ UNCHANGED <<hash_vars, fn_vars, prev>>

(***************************************************************************)
(* One chunk of _loglikelihood_tokens, vllm.py 358-383: the answers go to  *)
(* the local list res; no request is written.                              *)
(***************************************************************************)
LoglikelihoodChunk ==
    /\ pc = "running"
    /\ attr = "loglikelihood"
    /\ pos < Len(call_chunks)
    /\ LET cs == call_chunks
           chunk == cs[pos + 1]
           enc == [k \in 1..Len(chunk) |->
                       new_req(requests[remaining_reqs[chunk[k]]])]
           ans == [k \in 1..Len(chunk) |->
                       parse_logprobs(ll_input(enc[k]), ll_ctxlen(enc[k]))]
       IN  /\ engine_calls' =
                Append(engine_calls,
                       [k \in 1..Len(chunk) |-> remaining_reqs[chunk[k]]])
           /\ IF \E k \in 1..Len(chunk) : ans[k].failed
              THEN /\ pc' = "raised"
                   /\ error' = "AttributeError"
                   /\ UNCHANGED <<ll_res, pos>>
              ELSE /\ ll_res' = ll_res \o [k \in 1..Len(chunk) |-> ans[k].value]
                   /\ pos' = pos + 1
                   /\ UNCHANGED <<pc, error>>
    /\ UNCHANGED <<dbdict, cache_hook, batch_size, attr, requests, res,
                   remaining_reqs, warnings, lm_calls, lm_return, commits,
                   store_log, engine_outs, before, scan, produced, used>>
    /\ UNCHANGED <<hash_vars, fn_vars, prev>>

(***************************************************************************)
(* The engine call of a chunk raises (vllm.py 322, 370): the exception     *)
(* leaves the generator and fn uncaught.                                   *)
(***************************************************************************)
EngineRaise ==
    /\ pc = "running"
    /\ LET cs == call_chunks
       IN  /\ pos < Len(cs)
           /\ engine_calls' =
                Append(engine_calls,
                       IF attr = "generate_batch" THEN cs[pos + 1]
                       ELSE [k \in 1..Len(cs[pos + 1]) |->
                               remaining_reqs[cs[pos + 1][k]]])
    /\ pc' = "raised"
    /\ error' = "EngineError"
    /\ UNCHANGED <<dbdict, cache_hook, batch_size, attr, requests, res,
                   remaining_reqs, warnings, lm_calls, pos, ll_res, lm_return,
                   commits, store_log, engine_outs, before, scan, produced,
                   used>>
    /\ UNCHANGED <<hash_vars, fn_vars, prev>>

(***************************************************************************)
(* The generator operation returns; fn merges, writes the store, commits   *)
(* and stores the results on the requests (llm.py 224-239).                *)
(***************************************************************************)
Finish ==
    /\ pc = "running"
    /\ pos = Len(call_chunks)
    /\ LET m == Merge(attr, requests, remaining_reqs, res, dbdict)
       IN  /\ produced' = [i \in 1..Len(requests) |-> requests[i].result]
           /\ lm_return' =
                IF attr = "loglikelihood"
                THEN get_original(Flatten(call_chunks), ll_res)
                ELSE <<>>
           /\ IF m.failed
              THEN /\ pc' = "raised"
                   /\ error' = "IndexError"
                   /\ UNCHANGED <<dbdict, res, requests, commits, store_log>>
              ELSE /\ pc' = "returned"
                   /\ dbdict' = m.db
                   /\ res' = m.res
                   /\ commits' = commits + 1
                   /\ store_log' =
                        store_log \o merge_events(Len(remaining_reqs))
                   /\ requests' = [i \in 1..Len(requests) |->
                                      [requests[i] EXCEPT !.result = m.res[i]]]
                   /\ UNCHANGED error
    /\ UNCHANGED <<cache_hook, batch_size, attr, remaining_reqs, warnings,
                   lm_calls, engine_calls, engine_outs, pos, ll_res, before,
                   scan, used>>
    /\ UNCHANGED <<hash_vars, fn_vars, prev>>

\* a caller dispatches an operation on a list of fresh requests
Dispatch ==
    /\ pc \in {"idle", "returned", "raised"}
    /\ \E a \in Operations :
         \E reqs \in SeqsUpTo(RequestsOf(a), Min(MaxReqs, MaxTotal - used)) :
            DispatchCall(a, reqs)

\* the engine answers the next chunk of generate_batch
GenerateChunk ==
    /\ pc = "running"
    /\ attr = "generate_batch"
    /\ LET cs == call_chunks
       IN  /\ pos < Len(cs)
           /\ \E outs \in [1..Len(cs[pos + 1]) -> RawTexts] :
                GenerateChunkWith(cs[pos + 1], outs)

Next ==
    \/ Dispatch
    \/ GenerateChunk
    \/ LoglikelihoodChunk
    \/ EngineRaise
    \/ Finish

Spec == Init /\ [][Next]_vars

(***************************************************************************)
(* Dispatch calls followed by one repetition: after a call of non-exempt   *)
(* requests has returned, new requests with the same args and kwargs are   *)
(* dispatched under the same operation.                                    *)
(***************************************************************************)
InitRepeat ==
    /\ DispatchInit /\ HashIdle
    /\ TruncIdle /\ ScoreIdle /\ DpIdle /\ CollIdle /\ KwIdle
    /\ PromptIdle
    /\ prev = [pc |-> "first"]

DispatchFirst == prev.pc = "first" /\ Dispatch

Redispatch ==
    /\ prev.pc = "first"
    /\ pc = "returned"
    /\ Len(requests) >= 1
    /\ \A i \in 1..Len(requests) : ~IsExempt(attr, requests[i])
    /\ DispatchBody(attr, [i \in 1..Len(requests) |->
                             Instance(requests[i].args, requests[i].kwargs)])
    /\ prev' = [pc |-> "again",
                results |-> [i \in 1..Len(requests) |-> requests[i].result],
                dbdict |-> dbdict]

NextRepeat ==
    \/ DispatchFirst
    \/ Redispatch
    \/ GenerateChunk
    \/ LoglikelihoodChunk
    \/ EngineRaise
    \/ Finish

SpecRepeat == InitRepeat /\ [][NextRepeat]_vars

(***************************************************************************)
(* hash_args applied to two (operation, request) pairs.                    *)
(***************************************************************************)
HashKwargs == {KW_EMPTY, KW_SAMPLE, KW_GREEDY, KW_GREEDY_MAX, KW_MAX_GREEDY}
HashRequests == {Instance(<<c>>, kw) : c \in GenContexts, kw \in HashKwargs}

InitHash ==
    /\ DispatchInit
    /\ hop1 \in Operations /\ hop2 \in Operations
    /\ hreq1 \in HashRequests /\ hreq2 \in HashRequests
    /\ hkey1 = <<>> /\ hkey2 = <<>>
    /\ hpc = "start"
    /\ TruncIdle /\ ScoreIdle /\ DpIdle /\ CollIdle /\ KwIdle
    /\ PromptIdle /\ PrevIdle

ApplyHash ==
    /\ hpc = "start"
    /\ hkey1' = hash_args(hop1, hreq1)
    /\ hkey2' = hash_args(hop2, hreq2)
    /\ hpc' = "done"
    /\ UNCHANGED <<hop1, hreq1, hop2, hreq2>>
    /\ UNCHANGED <<dispatch_vars, fn_vars, prev>>

NextHash == ApplyHash

SpecHash == InitHash /\ [][NextHash]_vars

(***************************************************************************)
(* update_instance_with_result applied to one raw text and one until list  *)
(* (llm.py 120-128).                                                       *)
(***************************************************************************)
Chars == {"a", "b"}
TruncTexts == SeqsUpTo(Chars, MaxText)
TruncUntils ==
    {None} \cup {Some(u) : u \in SeqsUpTo(SeqsUpTo(Chars, MaxTerm), MaxStops)}
TruncInstance == Instance(<<"a">>, KW_GREEDY)

InitTrunc ==
    /\ DispatchInit /\ HashIdle
    /\ ScoreIdle /\ DpIdle /\ CollIdle /\ KwIdle
    /\ PromptIdle /\ PrevIdle
    /\ \E text \in TruncTexts : \E until \in TruncUntils :
          trunc = [pc |-> "start", text |-> text, until |-> until,
                   instance |-> TruncInstance]

UpdateInstanceWithResult ==
    /\ trunc.pc = "start"
    /\ LET text == IF trunc.until # None
                   THEN truncate(trunc.text, trunc.until.val)
                   ELSE trunc.text
           inst == [trunc.instance EXCEPT !.result = Some(text)]
       IN  /\ trunc' = [trunc EXCEPT !.pc = "done", !.instance = inst]
           /\ dbdict' = add_partial(dbdict, cache_hook, "generate_batch",
                                    inst, Some(text))
    /\ UNCHANGED <<call_vars, hash_vars, score, dp, coll, kwp,
                   prompt, prev>>

NextTrunc == UpdateInstanceWithResult

SpecTrunc == InitTrunc /\ [][NextTrunc]_vars

(***************************************************************************)
(* One request of _loglikelihood_tokens (vllm.py 361-381): c context       *)
(* tokens, k continuation tokens, max_length L.  The tokens are distinct   *)
(* powers of two, so that a sum of log-probabilities tells which tokens    *)
(* were summed.                                                            *)
(***************************************************************************)
ScoreContext(c) == [i \in 1..c |-> 2 ^ (i - 1)]
ScoreContinuation(c, k) == [i \in 1..k |-> 2 ^ (c + i - 1)]

InitScore ==
    /\ DispatchInit /\ HashIdle
    /\ TruncIdle /\ DpIdle /\ CollIdle /\ KwIdle
    /\ PromptIdle /\ PrevIdle
    /\ \E c \in 1..MaxCtx : \E k \in 1..MaxCont : \E L \in 1..MaxWindow :
          score = [pc |-> "start", max_length |-> L,
                   context_enc |-> ScoreContext(c),
                   continuation_enc |-> ScoreContinuation(c, k)]

ScoreRequest ==
    /\ score.pc = "start"
    /\ LET enc == <<score.context_enc, score.continuation_enc>>
           inp == ll_input_at(enc, score.max_length)
           ctxlen == ll_ctxlen_at(enc, score.max_length)
           answer == parse_logprobs(inp, ctxlen)
       IN  score' = [pc |-> IF answer.failed THEN "raised" ELSE "done",
                     max_length |-> score.max_length,
                     context_enc |-> score.context_enc,
                     continuation_enc |-> score.continuation_enc,
                     inp |-> inp, ctxlen |-> ctxlen, answer |-> answer.value]
    /\ UNCHANGED <<dispatch_vars, hash_vars, trunc, dp, coll, kwp,
                   prompt, prev>>

NextScore == ScoreRequest

SpecScore == InitScore /\ [][NextScore]_vars

(***************************************************************************)
(* _model_generate applied to one list of prompts by a generator with      *)
(* data_parallel_size replicas (vllm.py 208-253).                          *)
(***************************************************************************)
Prompts == {<<3>>, <<4>>, <<3, 4>>}

InitDp ==
    /\ DispatchInit /\ HashIdle
    /\ TruncIdle /\ ScoreIdle /\ CollIdle /\ KwIdle
    /\ PromptIdle /\ PrevIdle
    /\ \E n \in 1..MaxReplicas : \E prompts \in SeqsUpTo(Prompts, MaxPrompts) :
          dp = [pc |-> "start", data_parallel_size |-> n, requests |-> prompts]

ModelGenerate ==
    /\ dp.pc = "start"
    /\ dp' = [pc |-> "done",
              data_parallel_size |-> dp.data_parallel_size,
              requests |-> dp.requests,
              outputs |-> model_generate(dp.data_parallel_size, dp.requests)]
    /\ UNCHANGED <<dispatch_vars, hash_vars, trunc, score, coll, kwp,
                   prompt, prev>>

NextDp == ModelGenerate

SpecDp == InitDp /\ [][NextDp]_vars

(***************************************************************************)
(* _loglikelihood_tokens applied to one list of encoded requests           *)
(* (vllm.py 336-386): sort, chunk, score chunk by chunk, restore order.    *)
(***************************************************************************)
ScoredRequests == {<<<<3>>, <<4>>>>, <<<<3>>, <<3, 4>>>>, <<<<2>>, <<3>>>>}
ScoredBatchSizes == {"auto", "1", "2"}

InitColl ==
    /\ DispatchInit /\ HashIdle
    /\ TruncIdle /\ ScoreIdle /\ DpIdle /\ KwIdle
    /\ PromptIdle /\ PrevIdle
    /\ \E reqs \in SeqsUpTo(ScoredRequests, MaxScored) :
       \E bs \in ScoredBatchSizes :
          coll = [pc |-> "start", requests |-> reqs, batch_size |-> bs]

LoglikelihoodTokens ==
    /\ coll.pc = "start"
    /\ LET reqs == coll.requests
           order == sorted_order(reqs, Len(reqs))
           cs == chunks(order, chunk_n(coll.batch_size))
           answer(j) == parse_logprobs(ll_input(reqs[j]), ll_ctxlen(reqs[j]))
           flat == Flatten(cs)
       IN  coll' =
             IF \E k \in 1..Len(flat) : answer(flat[k]).failed
             THEN [pc |-> "raised", requests |-> reqs,
                   batch_size |-> coll.batch_size]
             ELSE [pc |-> "done", requests |-> reqs,
                   batch_size |-> coll.batch_size,
                   engine_calls |-> cs,
                   returned |->
                     get_original(order,
                                  [k \in 1..Len(flat) |-> answer(flat[k]).value])]
    /\ UNCHANGED <<dispatch_vars, hash_vars, trunc, score, dp, kwp,
                   prompt, prev>>

NextColl == LoglikelihoodTokens

SpecColl == InitColl /\ [][NextColl]_vars

(***************************************************************************)
(* The sampling parameters generate_batch hands to the engine for a chunk  *)
(* whose requests carry gen_kwargs, by a generator whose config holds      *)
(* cfg_kwargs (vllm.py 283-327, 215-217).                                  *)
(***************************************************************************)
CfgKwargs ==
    { <<>>,
      << <<"decoding_method", "greedy">> >>,
      << <<"max_new_tokens", 3>> >>,
      << <<"temperature", 5>> >>,
      << <<"top_k", 1>> >>,
      << <<"stop_sequences", StopList(<< <<"b">> >>)>> >> }

KwItems ==
    { <<"decoding_method", "sample">>, <<"decoding_method", "greedy">>,
      <<"max_new_tokens", 2>>, <<"min_new_tokens", 1>>,
      <<"temperature", 7>>, <<"top_k", 2>>,
      <<"stop_sequences", StopList(<< <<"a">> >>)>>,
      <<"stop_sequences", StopList(<<>>)>>,
      <<"stop_sequences", StopStr(<<"a">>)>>,
      <<"stop_sequences", StopOther>> }

\* the kwargs a request may carry: no key twice
RequestKwargs ==
    {kw \in SeqsUpTo(KwItems, MaxKw) :
        \A i, j \in 1..Len(kw) : i # j => kw[i][1] # kw[j][1]}

InitKw ==
    /\ DispatchInit /\ HashIdle
    /\ TruncIdle /\ ScoreIdle /\ DpIdle /\ CollIdle
    /\ PromptIdle /\ PrevIdle
    /\ \E cfg \in CfgKwargs : \E kw \in RequestKwargs :
          kwp = [pc |-> "start", base_kwargs |-> base_kwargs_of(cfg),
                 gen_kwargs |-> kw]

BuildSamplingParams ==
    /\ kwp.pc = "start"
    /\ LET p == chunk_params(kwp.base_kwargs, kwp.gen_kwargs, max_gen_toks)
       IN  kwp' =
             IF p.failed
             THEN [kwp EXCEPT !.pc = "raised"]
             ELSE [pc |-> "done", base_kwargs |-> kwp.base_kwargs,
                   gen_kwargs |-> kwp.gen_kwargs,
                   stop |-> p.until,
                   sampling |-> modify_gen_kwargs(p.kwargs)]
    /\ UNCHANGED <<dispatch_vars, hash_vars, trunc, score, dp, coll,
                   prompt, prev>>

NextKw == BuildSamplingParams

SpecKw == InitKw /\ [][NextKw]_vars

(***************************************************************************)
(* The prompt generate_batch sends to the engine for one encoded context,  *)
(* by a generator with the given max_length, in a chunk with the given     *)
(* max_tokens (vllm.py 316-327).                                           *)
(***************************************************************************)
InitPrompt ==
    /\ DispatchInit /\ HashIdle
    /\ TruncIdle /\ ScoreIdle /\ DpIdle /\ CollIdle /\ KwIdle /\ PrevIdle
    /\ \E L \in 1..MaxWindow : \E m \in 1..MaxGen : \E n \in 0..MaxCtx :
          prompt = [pc |-> "start", max_length |-> L, max_tokens |-> m,
                    context_encoding |-> [i \in 1..n |-> i + 2]]

CutPrompt ==
    /\ prompt.pc = "start"
    /\ prompt' = [pc |-> "done", max_length |-> prompt.max_length,
                  max_tokens |-> prompt.max_tokens,
                  context_encoding |-> prompt.context_encoding,
                  sent |-> truncate_context(prompt.context_encoding,
                                            prompt.max_length,
                                            prompt.max_tokens)]
    /\ UNCHANGED <<dispatch_vars, hash_vars, trunc, score, dp, coll, kwp,
                   prev>>

NextPrompt == CutPrompt

SpecPrompt == InitPrompt /\ [][NextPrompt]_vars

(***************************************************************************)
(* Vocabulary of the properties.                                           *)
(***************************************************************************)
Positions == 1..Len(requests)
Key(i) == hash_args(attr, requests[i])
Queued(i) == \E j \in 1..Len(remaining_reqs) : remaining_reqs[j] = i
ServedFromCache(i) == i <= Len(scan) /\ scan[i] # None

\* the positions that must be executed, in their original order
RECURSIVE expected_queue(_)
expected_queue(i) ==
    IF i = 0 THEN <<>>
    ELSE expected_queue(i - 1) \o
         (IF IsExempt(attr, requests[i]) \/ Key(i) \notin DOMAIN before
          THEN <<i>> ELSE <<>>)

\* every request of the call is non-exempt and has its key in the store
AllHit ==
    /\ pc # "idle"
    /\ \A i \in Positions :
          ~IsExempt(attr, requests[i]) /\ Key(i) \in DOMAIN before

\* the generator operation raised during the call
GeneratorRaised == pc = "raised" /\ error \in {"EngineError", "AttributeError"}

(***************************************************************************)
(* C1  Cache hit/skip: when every request of a dispatch call is            *)
(* non-exempt and has its key in the store, the engine is never invoked    *)
(* and, when the call returns, each request's result is the value stored   *)
(* under its key.                                                          *)
(***************************************************************************)
C1_CacheHitSkip ==
    AllHit =>
        /\ engine_calls = <<>>
        /\ pc = "returned" =>
              \A i \in Positions : requests[i].result = before[Key(i)]

C1_Witness == AllHit /\ pc = "returned" /\ Len(requests) >= 1

(***************************************************************************)
(* C2  Merge by index: when the generator returned having set a result on  *)
(* every queued request, the call ends with one result per input request;  *)
(* at a position served from the cache it is the stored value, at any      *)
(* other position it is the value the generator produced for that very     *)
(* request.                                                                *)
(***************************************************************************)
C2_MergeByIndex ==
    (/\ pc = "returned"
     /\ \A i \in Positions : Queued(i) => produced[i] # None)
    =>
        /\ Len(res) = Len(requests)
        /\ \A i \in Positions :
              /\ requests[i].result = res[i]
              /\ res[i] = IF ServedFromCache(i) THEN before[Key(i)]
                          ELSE produced[i]

C2_Witness ==
    /\ pc = "returned"
    /\ \A i \in Positions : Queued(i) => produced[i] # None
    /\ \E i, j \in Positions : i < j /\ ServedFromCache(i) /\ Queued(j)

(***************************************************************************)
(* C3  Sampling exemption (no write): the store never holds an entry       *)
(* under the key of a generate_batch request whose kwargs ask for          *)
(* decoding_method "sample".                                               *)
(***************************************************************************)
C3_ExemptNeverWritten ==
    \A r \in GenRequests :
        IsExempt("generate_batch", r) =>
            hash_args("generate_batch", r) \notin DOMAIN dbdict

(***************************************************************************)
(* C4  Sampling exemption (no read): an exempt request is always queued    *)
(* for execution, never served from the store, and when the call returns   *)
(* its result is the value the execution produced, also when its key is    *)
(* in the store.                                                           *)
(***************************************************************************)
C4_ExemptNeverRead ==
    \A i \in Positions :
        (pc # "idle" /\ IsExempt(attr, requests[i])) =>
            /\ Queued(i)
            /\ ~ServedFromCache(i)
            /\ pc = "returned" =>
                  /\ produced[i] # None
                  /\ requests[i].result = produced[i]

C4_Witness ==
    /\ pc = "returned"
    /\ \E i \in Positions :
          /\ IsExempt(attr, requests[i])
          /\ Key(i) \in DOMAIN before
          /\ before[Key(i)] # requests[i].result

HookWrote(k) ==
    \E i \in Positions :
        /\ Queued(i)
        /\ requests[i].result # None
        /\ k = hash_args("generate_batch", requests[i])
        /\ dbdict[k] = requests[i].result

C9_KeyDeterminism ==
    (/\ hpc = "done"
     /\ hop1 = hop2
     /\ hreq1.args = hreq2.args
     /\ SameMapping(hreq1.kwargs, hreq2.kwargs))
    => hkey1 = hkey2

(***************************************************************************)
(* C10  Cache key namespacing: one request gets different keys under two   *)
(* different operation names.                                              *)
(***************************************************************************)
C10_KeyNamespacing ==
    (hpc = "done" /\ hop1 # hop2 /\ hreq1 = hreq2) => hkey1 # hkey2

C10_Witness == hpc = "done" /\ hop1 # hop2 /\ hreq1 = hreq2

(***************************************************************************)
(* C11  Commit ordering: a dispatch call that returned normally called     *)
(* commit on the store exactly once, and every store write of the call,    *)
(* by the merge loop or by the cache hook, precedes that commit: the       *)
(* commit is the last store operation of the call.                         *)
(***************************************************************************)
Count(s, e) == Len(SelectSeq(s, LAMBDA x : x = e))

HasExempt == \E i \in Positions : IsExempt(attr, requests[i])

C12_OneWarningPerCall ==
    pc # "idle" => warnings = (IF HasExempt THEN 1 ELSE 0)

\* a call with two exempt requests, after an earlier call that ran an
\* exempt request (whose result the hook left in the store)
C12_Witness ==
    /\ pc = "returned"
    /\ warnings = 1
    /\ Cardinality({i \in Positions : IsExempt(attr, requests[i])}) >= 2
    /\ \E r \in GenRequests :
          /\ IsExempt("generate_batch", r)
          /\ hash_args("generate_batch", r) \in DOMAIN before

(***************************************************************************)
(* C13  Append-only store: no step of any dispatch call, returning or      *)
(* raising, removes a key from the store.                                  *)
(***************************************************************************)
C13_AppendOnly == [][DOMAIN dbdict \subseteq DOMAIN dbdict']_vars

\* a raising call that started on a non-empty store and left it larger
C13_Witness ==
    /\ pc = "raised"
    /\ DOMAIN before # {}
    /\ DOMAIN before \subseteq DOMAIN dbdict
    /\ DOMAIN dbdict # DOMAIN before

(***************************************************************************)
(* C14  Stop-sequence truncation: the result update_instance_with_result   *)
(* sets is the raw text cut strictly before the smallest start position    *)
(* at which any non-empty stop sequence occurs, and the whole text when    *)
(* none occurs, whatever the order of the stop sequences in the list.      *)
(***************************************************************************)
\* the start positions in text of the non-empty terms of until
StopStarts(text, until) ==
    {i \in 1..Len(text) :
        \E j \in 1..Len(until) :
            Len(until[j]) > 0 /\ OccursAt(text, until[j], i)}

EarliestCut(text, until) ==
    LET st == StopStarts(text, until)
    IN  IF st = {} THEN text
        ELSE SubSeq(text, 1, (CHOOSE i \in st : \A j \in st : i <= j) - 1)

C14_EarliestStopCut ==
    trunc.pc = "done" =>
        trunc.instance.result =
            Some(EarliestCut(trunc.text,
                             IF trunc.until = None THEN <<>>
                             ELSE trunc.until.val))

(***************************************************************************)
(* C15  Log-likelihood truncation boundary: for c >= 1 context tokens,     *)
(* k >= 1 continuation tokens and max_length L >= 1 the request is scored  *)
(* without an error, the scored input is the last min(c + k, L) tokens of  *)
(* context + continuation, and the answer is the sum over exactly the      *)
(* continuation tokens left in that input: all k when c + k <= L, the      *)
(* last min(k, L) otherwise.                                               *)
(***************************************************************************)
LastOf(s, n) == SubSeq(s, Len(s) - n + 1, Len(s))

C15_TruncationBoundary ==
    score.pc \in {"done", "raised"} =>
        LET c == Len(score.context_enc)
            k == Len(score.continuation_enc)
            whole == score.context_enc \o score.continuation_enc
            n == Min(c + k, score.max_length)
            surviving == LastOf(whole, Min(k, n))
        IN  /\ score.pc = "done"
            /\ score.inp = LastOf(whole, n)
            /\ score.answer =
                 sum_seq([i \in 1..Len(surviving) |-> logprob_of(surviving[i])])

(***************************************************************************)
(* C16  Data-parallel round trip: undistribute(distribute(n, items)) is    *)
(* items for every n >= 1 and every length, and the outputs                *)
(* _model_generate returns correspond position by position to its          *)
(* prompts, under data parallelism as without it.                          *)
(***************************************************************************)
C16_DataParallelRoundTrip ==
    dp.pc = "done" =>
        /\ undistribute(distribute(dp.data_parallel_size, dp.requests))
              = dp.requests
        /\ Len(dp.outputs) = Len(dp.requests)
        /\ \A i \in 1..Len(dp.requests) :
              dp.outputs[i].prompt_token_ids = dp.requests[i]

\* more prompts than replicas, not a multiple of their number, not all equal
C16_Witness ==
    /\ dp.pc = "done"
    /\ dp.data_parallel_size > 1
    /\ Len(dp.requests) > dp.data_parallel_size
    /\ Len(dp.requests) % dp.data_parallel_size # 0
    /\ Cardinality(Range(dp.requests)) >= 2
    /\ \A i \in 1..Len(dp.requests) :
          dp.outputs[i].prompt_token_ids = dp.requests[i]

(***************************************************************************)
(* C17  Collator order invariant: _loglikelihood_tokens submits every      *)
(* request once, the requests with more tokens first and, among equally    *)
(* long ones, in the order of their token tuples; the list it returns has  *)
(* one score per request, the score at position i being that of the        *)
(* request at position i, also when equal requests stand at several        *)
(* positions.                                                              *)
(***************************************************************************)
Toks(x) == x[1] \o x[2]
SortsBefore(x, y) ==
    \/ Len(Toks(x)) > Len(Toks(y))
    \/ Len(Toks(x)) = Len(Toks(y)) /\ lex_less(Toks(x), Toks(y))

\* the sum of the log-probabilities of the continuation tokens
ContinuationScore(x) == sum_seq([i \in 1..Len(x[2]) |-> logprob_of(x[2][i])])

C17_CollatorOrder ==
    coll.pc = "done" =>
        LET reqs == coll.requests
            flat == Flatten(coll.engine_calls)
        IN  /\ Len(flat) = Len(reqs)
            /\ Range(flat) = 1..Len(reqs)
            /\ \A j, k \in 1..Len(flat) :
                  j < k => ~SortsBefore(reqs[flat[k]], reqs[flat[j]])
            /\ Len(coll.returned) = Len(reqs)
            /\ \A i \in 1..Len(reqs) :
                  coll.returned[i] = ContinuationScore(reqs[i])

\* three requests, out of sorted order, the first and the last equal
C17_Witness ==
    /\ coll.pc = "done"
    /\ Len(coll.requests) = 3
    /\ coll.requests[1] = coll.requests[3]
    /\ SortsBefore(coll.requests[2], coll.requests[1])
    /\ Len(coll.engine_calls) = 2
    /\ coll.returned[1] = coll.returned[3]
    /\ coll.returned[2] # coll.returned[1]

(***************************************************************************)
(* C18  Grouping correctness in generate_batch: when generate_batch has    *)
(* returned, every request it was given was submitted to the engine in     *)
(* exactly one prompt slot, and holds the text the engine returned in      *)
(* that very slot, cut at the stop sequences of the request's own kwargs;  *)
(* this for equal, distinct and mixed kwargs and for every batch size.     *)
(***************************************************************************)
\* the slots (call, place in the call) in which position i was submitted
SlotsOf(i) ==
    {<<c, k>> \in (1..Len(engine_calls)) \X (1..MaxReqs + 1) :
        k <= Len(engine_calls[c]) /\ engine_calls[c][k] = i}

C18_GroupingCorrectness ==
    (pc = "returned" /\ attr = "generate_batch") =>
        \A i \in Positions :
            Queued(i) =>
                /\ Cardinality(SlotsOf(i)) = 1
                /\ \A sl \in SlotsOf(i) :
                      produced[i] =
                        Some(truncate(engine_outs[sl[1]][sl[2]],
                                      until_of(requests[i].kwargs)))

\* one engine call answered two requests with different texts
C18_SharedChunk ==
    /\ pc = "returned" /\ attr = "generate_batch"
    /\ Len(engine_calls) = 1 /\ Len(engine_calls[1]) = 2
    /\ engine_outs[1][1] # engine_outs[1][2]
    /\ produced[1] # produced[2]

\* two requests with different kwargs, answered by two engine calls
C18_Witness ==
    /\ pc = "returned" /\ attr = "generate_batch"
    /\ batch_size = "auto"
    /\ Len(requests) = 2 /\ Len(engine_calls) = 2
    /\ requests[1].kwargs # requests[2].kwargs
    /\ produced[1] # produced[2]

(***************************************************************************)
(* C19  Kwargs precedence: a parameter of the engine call has the value    *)
(* the request's kwargs give it and, when they give none, the value of     *)
(* the generator's defaults; max_new_tokens, of the request or else of     *)
(* the defaults, becomes max_tokens, which is max_gen_toks when neither    *)
(* has it; min_new_tokens becomes min_tokens; stop_sequences is not among  *)
(* the sampling parameters and its terms open the stop list.  (The         *)
(* temperature of a call that does not sample is the subject of C20.)      *)
(***************************************************************************)
Given(k) == HasKey(kwp.gen_kwargs, k) \/ HasKey(kwp.base_kwargs, k)
Effective(k) ==
    IF HasKey(kwp.gen_kwargs, k) THEN KwVal(kwp.gen_kwargs, k)
    ELSE KwVal(kwp.base_kwargs, k)

\* the engine parameter to has the effective value of the kwargs key from,
\* and is absent when the key is given nowhere
Carries(from, to) ==
    IF Given(from)
    THEN HasKey(kwp.sampling, to) /\ KwVal(kwp.sampling, to) = Effective(from)
    ELSE ~HasKey(kwp.sampling, to)

StopTerms ==
    IF ~Given("stop_sequences") THEN <<>>
    ELSE IF Effective("stop_sequences").kind = "str"
    THEN <<Effective("stop_sequences").str>>
    ELSE Effective("stop_sequences").list

C19_KwargsPrecedence ==
    kwp.pc = "done" =>
        /\ Carries("top_k", "top_k")
        /\ Effective("decoding_method") = "sample" =>
              (Given("temperature") => Carries("temperature", "temperature"))
        /\ HasKey(kwp.sampling, "max_tokens")
        /\ IF Given("max_new_tokens")
           THEN Carries("max_new_tokens", "max_tokens")
           ELSE KwVal(kwp.sampling, "max_tokens") = max_gen_toks
        /\ Carries("min_new_tokens", "min_tokens")
        /\ \A k \in {"stop_sequences", "max_new_tokens", "min_new_tokens"} :
              ~HasKey(kwp.sampling, k)
        /\ SubSeq(kwp.stop, 1, Len(StopTerms)) = StopTerms

\* the request overrides the max_new_tokens of the defaults and names a
\* stop sequence
C19_Witness ==
    /\ kwp.pc = "done"
    /\ HasKey(kwp.base_kwargs, "max_new_tokens")
    /\ HasKey(kwp.gen_kwargs, "max_new_tokens")
    /\ KwVal(kwp.base_kwargs, "max_new_tokens")
          # KwVal(kwp.gen_kwargs, "max_new_tokens")
    /\ HasKey(kwp.gen_kwargs, "stop_sequences")
    /\ StopTerms # <<>>
    /\ KwVal(kwp.sampling, "max_tokens") = KwVal(kwp.gen_kwargs, "max_new_tokens")

(***************************************************************************)
(* C20  Decoding method mapping: when the effective decoding_method is     *)
(* "sample" the engine call samples (its temperature is above 0); for any  *)
(* other value the engine call is greedy, with temperature 0 whatever      *)
(* temperature the kwargs carry.                                           *)
(***************************************************************************)
C20_DecodingMethodMapping ==
    kwp.pc = "done" =>
        IF Effective("decoding_method") = "sample"
        THEN KwVal(kwp.sampling, "temperature") > 0
        ELSE KwVal(kwp.sampling, "temperature") = 0

(***************************************************************************)
(* C21  Chunking bound and coverage: with an integer batch_size b > 0 no   *)
(* engine call of generate_batch or of loglikelihood scoring receives      *)
(* more than b prompts; with batch_size "auto" every kwargs group, and     *)
(* the whole sorted list of a scoring call, is one engine call; in both    *)
(* cases, when the operation has returned, every queued request was        *)
(* submitted in exactly one engine call, in the order it has in its        *)
(* group (input order in a kwargs group, sorted order in a scoring call).  *)
(***************************************************************************)
BatchBound == CHOOSE b \in 1..9 : ToString(b) = batch_size
Submitted == Flatten(engine_calls)
SameGroup(i, j) == requests[i].kwargs = requests[j].kwargs

C21_ChunkingBoundCoverage ==
    /\ batch_size # "auto" =>
          \A c \in 1..Len(engine_calls) : Len(engine_calls[c]) <= BatchBound
    /\ pc = "returned" =>
          /\ \A c \in 1..Len(engine_calls) : Len(engine_calls[c]) >= 1
          /\ Len(Submitted) = Len(remaining_reqs)
          /\ Range(Submitted) = Range(remaining_reqs)
          /\ IF attr = "generate_batch"
             THEN /\ \A j, k \in 1..Len(Submitted) :
                        (j < k /\ SameGroup(Submitted[j], Submitted[k]))
                            => Submitted[j] < Submitted[k]
                  /\ batch_size = "auto" =>
                        \A c, d \in 1..Len(engine_calls) :
                            c # d => ~SameGroup(engine_calls[c][1],
                                                engine_calls[d][1])
             ELSE /\ \A j, k \in 1..Len(Submitted) :
                        j < k => ~SortsBefore(new_req(requests[Submitted[k]]),
                                              new_req(requests[Submitted[j]]))
                  /\ batch_size = "auto" => Len(engine_calls) <= 1

\* a kwargs group of two requests cut into two engine calls of one prompt
C21_Witness ==
    /\ pc = "returned" /\ attr = "generate_batch"
    /\ batch_size = "1"
    /\ Len(remaining_reqs) = 2
    /\ SameGroup(1, 2)
    /\ engine_calls = << <<1>>, <<2>> >>

(***************************************************************************)
(* C22  Kwargs homogeneity per engine call: the requests generate_batch    *)
(* submits in one engine call all carry the kwargs of the first of them,   *)
(* so the sampling kwargs and the stop list built from the first request   *)
(* are those each request of the call would have got.                      *)
(***************************************************************************)
C22_KwargsHomogeneity ==
    attr = "generate_batch" =>
        \A c \in 1..Len(engine_calls) :
            \A k \in 1..Len(engine_calls[c]) :
                LET first == requests[engine_calls[c][1]].kwargs
                    mine == requests[engine_calls[c][k]].kwargs
                IN  /\ mine = first
                    /\ chunk_params(base_kwargs, mine, max_gen_toks)
                          = chunk_params(base_kwargs, first, max_gen_toks)

\* one engine call for two requests with equal kwargs and different
\* contexts
C22_Witness ==
    /\ pc = "returned" /\ attr = "generate_batch"
    /\ Len(engine_calls) = 1 /\ Len(engine_calls[1]) = 2
    /\ requests[1].args # requests[2].args
    /\ requests[1].kwargs = requests[2].kwargs

(***************************************************************************)
(* C23  Exemption agrees with effective decoding: a request generate_batch *)
(* executes with effective decoding_method "sample", the generator's       *)
(* defaults merged with the request's kwargs, is one the dispatcher        *)
(* treats as exempt; so is a request whose kwargs omit decoding_method     *)
(* while the default is "sample".                                          *)
(***************************************************************************)
EffectiveMethod(req) ==
    KwVal(merge_kwargs(base_kwargs, req.kwargs), "decoding_method")

C23_ExemptionMatchesDecoding ==
    (pc # "idle" /\ attr = "generate_batch") =>
        \A i \in Positions :
            (Queued(i) /\ EffectiveMethod(requests[i]) = "sample")
                => IsExempt(attr, requests[i])

(***************************************************************************)
(* C24  Prompt length bound: whatever max_length and max_tokens are, also  *)
(* when max_tokens equals or exceeds max_length, the prompt generate_batch *)
(* sends to the engine is a suffix of the encoded context of at most       *)
(* max(0, max_length - max_tokens) tokens.                                 *)
(***************************************************************************)
IsSuffix(s, t) == Len(s) <= Len(t) /\ s = LastOf(t, Len(s))

C24_PromptLengthBound ==
    prompt.pc = "done" =>
        /\ IsSuffix(prompt.sent, prompt.context_encoding)
        /\ Len(prompt.sent) <= Max(0, prompt.max_length - prompt.max_tokens)

====
